---- MODULE Spec2Model ----
(***************************************************************************)
(* Model of changename3.py: the rename template (tokenize_template,        *)
(* render_from_segments), the planning loop of main, ensure_no_collisions, *)
(* two_phase_rename, save_log and undo, over one directory of files.       *)
(*                                                                         *)
(* A string is a sequence of one-character strings.  A file extension      *)
(* (".jpg", ".PNG") and the temporary suffix of two_phase_rename are each  *)
(* kept as one element of the sequence, since the program only ever takes  *)
(* them off or puts them on whole.  A path is the file's name inside the   *)
(* directory main resolved (every path the program builds is              *)
(* folder / name or path.with_name(name)); the directory holds regular     *)
(* files only, so Path.resolve() of such a path is the path itself.        *)
(*                                                                         *)
(* main is followed through its --src-prefix branch (lines 331-342); the   *)
(* interactive branch ends in the same kind of list, the sorted images     *)
(* whose stem starts with the chosen prefix.  Any call of Path.rename may  *)
(* raise (RenameFails); one that does not raise moves the entry and, as on *)
(* POSIX, replaces a file at the target.  An undo invocation may follow    *)
(* once the rename invocation has ended and left a log.                    *)
(***************************************************************************)
EXTENDS Integers, Sequences, FiniteSets, TLC

VARIABLES
    tpl,         \* args.name: the template
    start,       \* args.start
    prefixes,    \* parse_prefixes(args.src_prefix)
    dry_run,     \* args.dry_run of the rename invocation
    fs,          \* the directory: name -> identity of the file stored there
    fs0,         \* the directory as it was before main ran (history)
    pc,          \* position of the running invocation
    candidates,  \* main: the selected files, in order
    segs,        \* main: tokenize_template(args.name)
    x_counter,   \* main: shared x counter
    d_counters,  \* main: one counter per digit run
    pairs,       \* main: the plan, entries <<src, dst>>
    k,           \* index of the loop in progress (planning, phase 1, phase 2, undo)
    mapping,     \* the value two_phase_rename returned (<<>> before it returns)
    logs,        \* the log files save_log wrote: payload["pairs"] of each
    err,         \* the error the last invocation ended with (NoErr if none)
    calls,       \* history: the rename calls of this invocation that succeeded, in order
    ops,         \* undo: the reverse pairs <<frm, to>>
    undo_dry,    \* args.dry_run of the undo invocation
    undos,       \* number of undo invocations started
    failed_in,   \* history: the loop whose rename call raised ("" if none did)
    fs_undo,     \* history: the directory as it was when the last undo began
    lost         \* history: identities of the files a rename call replaced

vars == <<tpl, start, prefixes, dry_run, fs, fs0, pc, candidates, segs, x_counter,
          d_counters, pairs, k, mapping, logs, err, calls, ops, undo_dry, undos,
          failed_in, fs_undo, lost>>

-----------------------------------------------------------------------------
(* Bounds *)

MaxTplLen == 2      \* templates of the rename runs: every string up to this length
MaxFiles == 3       \* files in the directory before the run
MaxUndos == 2       \* undo invocations after the run

-----------------------------------------------------------------------------
(* Characters and strings *)

Digits == <<"0", "1", "2", "3", "4", "5", "6", "7", "8", "9">>

IsDigit(ch) == \E d \in 1..10 : Digits[d] = ch

DigitVal(ch) == (CHOOSE d \in 1..10 : Digits[d] = ch) - 1

RECURSIVE ParseInt(_)
ParseInt(run) ==
    IF run = <<>> THEN 0
    ELSE 10 * ParseInt(SubSeq(run, 1, Len(run) - 1)) + DigitVal(run[Len(run)])

RECURSIVE StrNat(_)
StrNat(n) ==
    IF n < 10 THEN <<Digits[n + 1]>>
    ELSE StrNat(n \div 10) \o <<Digits[(n % 10) + 1]>>

Str(n) == IF n < 0 THEN <<"-">> \o StrNat(-n) ELSE StrNat(n)

Zeros(n) == [i \in 1..n |-> "0"]

ZFill(s, width) ==
    IF Len(s) >= width THEN s
    ELSE IF s # <<>> /\ s[1] \in {"+", "-"}
         THEN <<s[1]>> \o Zeros(width - Len(s)) \o Tail(s)
         ELSE Zeros(width - Len(s)) \o s

\* the inner while loops of tokenize_template: the first position from j on
\* that does not continue a run of the given kind
RECURSIVE RunEnd(_, _, _)
RunEnd(s, j, kind) ==
    IF j <= Len(s)
       /\ CASE kind = "x" -> s[j] \in {"x", "X"}
            [] kind = "d" -> IsDigit(s[j])
            [] OTHER -> (~IsDigit(s[j])) /\ s[j] \notin {"x", "X"} /\ s[j] # "["
    THEN RunEnd(s, j + 1, kind)
    ELSE j

\* tpl.find("]", i + 1) with 1-based positions; 0 when there is none
Find(s, ch, from) ==
    IF \E j \in from..Len(s) : s[j] = ch
    THEN CHOOSE j \in from..Len(s) : s[j] = ch /\ \A h \in from..(j - 1) : s[h] # ch
    ELSE 0

\* the result of tokenize_template: the segments, or raised = TRUE for the
\* SystemExit of line 103
RECURSIVE TokenizeFrom(_, _, _)
TokenizeFrom(s, i, acc) ==
    IF i > Len(s) THEN [raised |-> FALSE, segs |-> acc]
    ELSE IF s[i] = "["
    THEN LET j == Find(s, "]", i + 1)
         IN  IF j = 0 THEN [raised |-> TRUE, segs |-> <<>>]
             ELSE TokenizeFrom(s, j + 1, Append(acc, <<"lit", SubSeq(s, i + 1, j - 1)>>))
    ELSE IF s[i] \in {"x", "X"}
    THEN LET j == RunEnd(s, i, "x")
         IN  TokenizeFrom(s, j, Append(acc, <<"x", j - i>>))
    ELSE IF IsDigit(s[i])
    THEN LET j == RunEnd(s, i, "d")
         IN  TokenizeFrom(s, j, Append(acc, <<"d", j - i, ParseInt(SubSeq(s, i, j - 1))>>))
    ELSE LET j == RunEnd(s, i + 1, "lit")
         IN  TokenizeFrom(s, j, Append(acc, <<"lit", SubSeq(s, i, j - 1)>>))

tokenize_template(s) == TokenizeFrom(s, 1, <<>>)

\* variant: the number is never filled up with zeros
FieldNoFill(val, width) == Str(val)

Field(val, width) == IF width > 1 THEN ZFill(Str(val), width) ELSE Str(val)

RECURSIVE RenderFrom(_, _, _, _, _)
RenderFrom(sg, i, x_val, d_vals, d_idx) ==
    IF i > Len(sg) THEN <<>>
    ELSE LET seg == sg[i]
         IN  IF seg[1] = "lit"
             THEN seg[2] \o RenderFrom(sg, i + 1, x_val, d_vals, d_idx)
             ELSE IF seg[1] = "x"
             THEN Field(x_val, seg[2]) \o RenderFrom(sg, i + 1, x_val, d_vals, d_idx)
             ELSE Field(d_vals[d_idx], seg[2])
                      \o RenderFrom(sg, i + 1, x_val, d_vals, d_idx + 1)

render_from_segments(sg, x_val, d_vals) == RenderFrom(sg, 1, x_val, d_vals, 1)

count_d_segments(sg) == Cardinality({i \in 1..Len(sg) : sg[i][1] = "d"})

has_x_segment(sg) == \E i \in 1..Len(sg) : sg[i][1] = "x"

RECURSIVE InitDFrom(_, _)
InitDFrom(sg, i) ==
    IF i > Len(sg) THEN <<>>
    ELSE IF sg[i][1] = "d" THEN <<sg[i][3]>> \o InitDFrom(sg, i + 1)
         ELSE InitDFrom(sg, i + 1)

init_d_counters(sg) == InitDFrom(sg, 1)

-----------------------------------------------------------------------------
(* Paths and the directory *)

TempSuffix == ".__tmp_rename__"     \* temp_suffix, one element (the stamp included)

IMAGE_EXTS == {".jpg", ".jpeg", ".png", ".webp", ".bmp", ".tif", ".tiff",
               ".heic", ".heif", ".gif", ".avif", ".jfif"}

DotTokens == IMAGE_EXTS \cup {".PNG", ".JPG", TempSuffix}

\* str.lower() on one element
LowerCh(ch) ==
    CASE ch = "X" -> "x"
      [] ch = ".PNG" -> ".png"
      [] ch = ".JPG" -> ".jpg"
      [] OTHER -> ch

Lower(s) == [i \in 1..Len(s) |-> LowerCh(s[i])]

\* name.rfind("."), 1-based; 0 when the name has no dot
LastDot(name) ==
    IF \E i \in 1..Len(name) : name[i] \in DotTokens
    THEN CHOOSE i \in 1..Len(name) :
             name[i] \in DotTokens /\ \A j \in (i + 1)..Len(name) : name[j] \notin DotTokens
    ELSE 0

\* PurePath.suffix: from the last dot on, unless the name starts with it
Suffix(name) ==
    IF LastDot(name) > 1 THEN SubSeq(name, LastDot(name), Len(name)) ELSE <<>>

\* PurePath.stem
Stem(name) ==
    IF LastDot(name) > 1 THEN SubSeq(name, 1, LastDot(name) - 1) ELSE name

exists(f, p) == p \in DOMAIN f

resolve(p) == p

is_image(f, p) ==
    exists(f, p) /\ Len(Suffix(p)) = 1 /\ Lower(Suffix(p))[1] \in IMAGE_EXTS

StartsWith(s, pref) == Len(pref) <= Len(s) /\ SubSeq(s, 1, Len(pref)) = pref

match_any_prefix(stem, prefs) == \E pref \in prefs : StartsWith(stem, pref)

\* code point order of the elements that occur in file names
CharOrder == <<".jpg", ".png", "0", "1", "2", "3", "4", "5", "6", "7", "8", "9", "a", "x">>

Ord(ch) == CHOOSE i \in 1..Len(CharOrder) : CharOrder[i] = ch

\* a < b for Python strings
RECURSIVE StrLess(_, _)
StrLess(a, b) ==
    IF b = <<>> THEN FALSE
    ELSE IF a = <<>> THEN TRUE
    ELSE IF a[1] = b[1] THEN StrLess(Tail(a), Tail(b))
    ELSE Ord(a[1]) < Ord(b[1])

\* list.sort(key=lambda p: p.name.lower()) of a set of names
RECURSIVE SortByLowerName(_)
SortByLowerName(S) ==
    IF S = {} THEN <<>>
    ELSE LET m == CHOOSE n \in S : \A o \in S \ {n} : ~StrLess(Lower(o), Lower(n))
         IN  <<m>> \o SortByLowerName(S \ {m})

\* Path.rename on a POSIX system: the entry moves, replacing a file at the target
Rename(f, frm, to) ==
    IF frm = to THEN f
    ELSE [n \in (DOMAIN f \ {frm}) \cup {to} |-> IF n = to THEN f[frm] ELSE f[n]]

-----------------------------------------------------------------------------
(* Rename safety *)

NoErr == [type |-> "", msg |-> ""]

Exit(m) == [type |-> "SystemExit", msg |-> m]

OSError == [type |-> "OSError", msg |-> ""]

Targets(prs) == [i \in 1..Len(prs) |-> prs[i][2]]

HasDuplicateTarget(prs) ==
    LET targets == Targets(prs)
    IN  Cardinality({targets[i] : i \in 1..Len(targets)}) # Len(targets)

\* variant: no destination is looked up in the directory
ForeignTargetsNone(f, prs) == {}

ForeignTargets(f, prs) ==
    LET src_set == {resolve(prs[i][1]) : i \in 1..Len(prs)}
    IN  {i \in 1..Len(prs) : exists(f, prs[i][2]) /\ resolve(prs[i][2]) \notin src_set}

\* variant: the occupied destinations are looked for before the duplicates
ensure_occupants_first(f, prs) ==
    IF ForeignTargets(f, prs) # {} THEN Exit("target exists")
    ELSE IF HasDuplicateTarget(prs) THEN Exit("duplicate target")
    ELSE NoErr

\* the error ensure_no_collisions raises, NoErr when it returns
ensure_no_collisions(f, prs) ==
    IF HasDuplicateTarget(prs) THEN Exit("duplicate target")
    ELSE IF ForeignTargets(f, prs) # {} THEN Exit("target exists")
    ELSE NoErr

Mapping(prs) == [i \in 1..Len(prs) |-> [src |-> prs[i][1], dst |-> prs[i][2]]]

\* variant: the temporary suffix is empty
TempOfSame(src) == src

TempOf(src) == src \o <<TempSuffix>>

phase1(prs) == [i \in 1..Len(prs) |-> <<prs[i][1], TempOf(prs[i][1])>>]

phase2(prs) == [i \in 1..Len(prs) |-> <<TempOf(prs[i][1]), prs[i][2]>>]

Reversed(s) == [i \in 1..Len(s) |-> s[Len(s) + 1 - i]]

UndoOps(log) == [i \in 1..Len(log) |-> <<Reversed(log)[i].dst, Reversed(log)[i].src>>]

\* variant: only the first reverse pair is checked before the renames
UndoPreCheckFirst(f, os, i) ==
    IF i > Len(os) THEN NoErr
    ELSE IF ~exists(f, os[i][1]) THEN Exit("undo: source missing")
    ELSE IF exists(f, os[i][2]) /\ os[i][2] # os[i][1] THEN Exit("undo: target exists")
    ELSE NoErr

\* the pre-check loop of undo: the error of the first pair that fails, else NoErr
RECURSIVE UndoPreCheck(_, _, _)
UndoPreCheck(f, os, i) ==
    IF i > Len(os) THEN NoErr
    ELSE IF ~exists(f, os[i][1]) THEN Exit("undo: source missing")
    ELSE IF exists(f, os[i][2]) /\ os[i][2] # os[i][1] THEN Exit("undo: target exists")
    ELSE UndoPreCheck(f, os, i + 1)

\* the rename loop of undo, lines 226-227, when every call succeeds
RECURSIVE UndoRenames(_, _, _)
UndoRenames(f, os, i) ==
    IF i > Len(os) THEN f
    ELSE UndoRenames(Rename(f, os[i][1], os[i][2]), os, i + 1)

-----------------------------------------------------------------------------
(* Inputs *)

TplChars == {"[", "]", "x", "X", "0", "9", "a"}

RECURSIVE StringsUpTo(_)
StringsUpTo(n) ==
    IF n = 0 THEN {<<>>}
    ELSE LET shorter == StringsUpTo(n - 1)
         IN  shorter \cup {Append(s, c) : s \in shorter, c \in TplChars}

\* the patterns the documentation works through: "abc[def" and a pattern of one
\* x run and the digit runs "001" and "500"
ExampleTemplates ==
    { <<"a", "b", "c", "[", "d", "e", "f">>,
      <<"x", "a", "0", "0", "1", "a", "5", "0", "0">> }

Templates == StringsUpTo(MaxTplLen) \cup ExampleTemplates

Starts == {-1, 1, 9}

\* the image files a directory may hold: names the counters of the templates run
\* into (9, 10, 11) and one with an upper-case extension
NameUniverse ==
    { <<"9", ".jpg">>, <<"1", "0", ".jpg">>, <<"1", "1", ".jpg">>, <<"a", ".PNG">> }

Directories == {S \in SUBSET NameUniverse : Cardinality(S) <= MaxFiles}

PrefixSets == { {<<"1">>}, {<<"1">>, <<"9">>}, {<<"a">>}, {<<"9">>, <<"a">>} }

-----------------------------------------------------------------------------
(* The rename invocation: main *)

Init ==
    /\ tpl \in Templates
    /\ start \in Starts
    /\ prefixes \in PrefixSets
    /\ dry_run \in BOOLEAN
    /\ \E S \in Directories : fs = [n \in S |-> n]
    /\ fs0 = fs
    /\ pc = "select"
    /\ candidates = <<>>
    /\ segs = <<>>
    /\ x_counter = 0
    /\ d_counters = <<>>
    /\ pairs = <<>>
    /\ k = 0
    /\ mapping = <<>>
    /\ logs = <<>>
    /\ err = NoErr
    /\ calls = <<>>
    /\ ops = <<>>
    /\ undo_dry = FALSE
    /\ undos = 0
    /\ failed_in = ""
    /\ fs_undo = fs
    /\ lost = {}

Images(f) == SortByLowerName({p \in DOMAIN f : is_image(f, p)})

RECURSIVE Filter(_, _)
Filter(ps, prefs) ==
    IF ps = <<>> THEN <<>>
    ELSE IF match_any_prefix(Stem(Head(ps)), prefs)
         THEN <<Head(ps)>> \o Filter(Tail(ps), prefs)
         ELSE Filter(Tail(ps), prefs)

\* main, lines 314-342: the template must be given; the images of the folder,
\* sorted, and of them the ones that start with a prefix
MainSelect ==
    /\ pc = "select"
    /\ IF tpl = <<>>
       THEN /\ err' = Exit("no template")
            /\ pc' = "exit"
            /\ UNCHANGED candidates
       ELSE /\ candidates' = Filter(Images(fs), prefixes)
            /\ pc' = IF candidates' = <<>> THEN "exit" ELSE "tokenize"
            /\ UNCHANGED err
    /\ UNCHANGED <<tpl, start, prefixes, dry_run, fs, fs0, segs, x_counter, d_counters,
                   pairs, k, mapping, logs, calls, ops, undo_dry, undos, failed_in,
                   fs_undo, lost>>

\* main, lines 364-373
MainTokenize ==
    /\ pc = "tokenize"
    /\ LET t == tokenize_template(tpl)
       IN  IF t.raised
           THEN /\ err' = Exit("unbalanced bracket")
                /\ pc' = "exit"
                /\ UNCHANGED <<segs, x_counter, d_counters, k>>
           ELSE /\ segs' = t.segs
                /\ d_counters' = init_d_counters(t.segs)
                /\ x_counter' = start
                /\ IF (~has_x_segment(t.segs)) /\ count_d_segments(t.segs) = 0
                   THEN /\ err' = Exit("no counter")
                        /\ pc' = "exit"
                        /\ UNCHANGED k
                   ELSE /\ pc' = "plan"
                        /\ k' = 1
                        /\ UNCHANGED err
    /\ UNCHANGED <<tpl, start, prefixes, dry_run, fs, fs0, candidates, pairs, mapping,
                   logs, calls, ops, undo_dry, undos, failed_in, fs_undo, lost>>

\* main, lines 374-381: one iteration of the planning loop
MainPlanStep ==
    /\ pc = "plan"
    /\ k <= Len(candidates)
    /\ LET p == candidates[k]
           base == render_from_segments(segs, x_counter, d_counters)
       IN  pairs' = Append(pairs, <<p, base \o Suffix(p)>>)
    /\ x_counter' = IF has_x_segment(segs) THEN x_counter + 1 ELSE x_counter
    /\ d_counters' = IF count_d_segments(segs) > 0
                     THEN [j \in 1..Len(d_counters) |-> d_counters[j] + 1]
                     ELSE d_counters
    /\ k' = k + 1
    /\ UNCHANGED <<tpl, start, prefixes, dry_run, fs, fs0, pc, candidates, segs, mapping,
                   logs, err, calls, ops, undo_dry, undos, failed_in, fs_undo, lost>>

\* main, line 383
MainEnsure ==
    /\ pc = "plan"
    /\ k > Len(candidates)
    /\ err' = ensure_no_collisions(fs, pairs)
    /\ pc' = IF err' = NoErr THEN "rename" ELSE "exit"
    /\ UNCHANGED <<tpl, start, prefixes, dry_run, fs, fs0, candidates, segs, x_counter,
                   d_counters, pairs, k, mapping, logs, calls, ops, undo_dry, undos,
                   failed_in, fs_undo, lost>>

\* variant: two_phase_rename does not look at dry_run
TwoPhaseBeginNoPreview ==
    /\ pc = "rename"
    /\ pc' = "phase1"
    /\ k' = 1
    /\ UNCHANGED <<tpl, start, prefixes, dry_run, fs, fs0, candidates, segs, x_counter,
                   d_counters, pairs, mapping, logs, err, calls, ops, undo_dry, undos,
                   failed_in, fs_undo, lost>>

\* two_phase_rename, lines 184-192, and for a dry run the return of main, 392-394
TwoPhaseBegin ==
    /\ pc = "rename"
    /\ IF dry_run
       THEN /\ mapping' = Mapping(pairs)
            /\ pc' = "exit"
            /\ UNCHANGED k
       ELSE /\ pc' = "phase1"
            /\ k' = 1
            /\ UNCHANGED mapping
    /\ UNCHANGED <<tpl, start, prefixes, dry_run, fs, fs0, candidates, segs, x_counter,
                   d_counters, pairs, logs, err, calls, ops, undo_dry, undos, failed_in,
                   fs_undo, lost>>

\* variant: each file goes to its temporary name and at once on to its destination
RenameLoopInterleaved(at) ==
    CASE at = "phase1" ->
             [n \in 1..(2 * Len(pairs)) |->
                 IF n % 2 = 1 THEN phase1(pairs)[(n + 1) \div 2] ELSE phase2(pairs)[n \div 2]]
      [] at = "phase2" -> phase2(pairs)
      [] at = "undo" -> ops

\* the loop a real run is in, and the calls it makes in order
RenameLoop(at) ==
    CASE at = "phase1" -> phase1(pairs)
      [] at = "phase2" -> phase2(pairs)
      [] at = "undo" -> ops

AfterLoop(at) ==
    CASE at = "phase1" -> "phase2"
      [] at = "phase2" -> "save"
      [] at = "undo" -> "exit"

\* one rename call of lines 195, 197 or 227 that succeeds (a call whose source
\* is missing can only raise)
RenameOk ==
    /\ pc \in {"phase1", "phase2", "undo"}
    /\ LET call == RenameLoop(pc)[k]
       IN  /\ exists(fs, call[1])
           /\ fs' = Rename(fs, call[1], call[2])
           /\ calls' = Append(calls, call)
           /\ lost' = IF exists(fs, call[2]) /\ call[2] # call[1]
                      THEN lost \cup {fs[call[2]]}
                      ELSE lost
    /\ IF k < Len(RenameLoop(pc))
       THEN /\ k' = k + 1
            /\ UNCHANGED pc
       ELSE /\ k' = 1
            /\ pc' = AfterLoop(pc)
    /\ mapping' = IF pc' = "save" THEN Mapping(pairs) ELSE mapping
    /\ UNCHANGED <<tpl, start, prefixes, dry_run, fs0, candidates, segs, x_counter,
                   d_counters, pairs, logs, err, ops, undo_dry, undos, failed_in, fs_undo>>

\* one rename call that raises: the exception is caught nowhere and ends the run
RenameFails ==
    /\ pc \in {"phase1", "phase2", "undo"}
    /\ err' = OSError
    /\ failed_in' = pc
    /\ pc' = "exit"
    /\ UNCHANGED <<tpl, start, prefixes, dry_run, fs, fs0, candidates, segs, x_counter,
                   d_counters, pairs, k, mapping, logs, calls, ops, undo_dry, undos,
                   fs_undo, lost>>

\* main, lines 396-398: save_log
SaveLog ==
    /\ pc = "save"
    /\ logs' = Append(logs, mapping)
    /\ pc' = "exit"
    /\ UNCHANGED <<tpl, start, prefixes, dry_run, fs, fs0, candidates, segs, x_counter,
                   d_counters, pairs, k, mapping, err, calls, ops, undo_dry, undos,
                   failed_in, fs_undo, lost>>

-----------------------------------------------------------------------------
(* The undo invocation: main, lines 309-312, and undo *)

UndoBegin ==
    /\ pc = "exit"
    /\ undos < MaxUndos
    /\ undos' = undos + 1
    /\ \E d \in BOOLEAN : undo_dry' = d
    /\ \E l \in 1..Len(logs) : ops' = UndoOps(logs[l])
    /\ err' = UndoPreCheck(fs, ops', 1)
    /\ failed_in' = ""
    /\ calls' = <<>>
    /\ fs_undo' = fs
    /\ IF err' = NoErr /\ ~undo_dry'
       THEN pc' = "undo" /\ k' = 1
       ELSE pc' = "exit" /\ UNCHANGED k
    /\ UNCHANGED <<tpl, start, prefixes, dry_run, fs, fs0, candidates, segs, x_counter,
                   d_counters, pairs, mapping, logs, lost>>

Next ==
    \/ MainSelect
    \/ MainTokenize
    \/ MainPlanStep
    \/ MainEnsure
    \/ TwoPhaseBegin
    \/ RenameOk
    \/ RenameFails
    \/ SaveLog
    \/ UndoBegin

Spec == Init /\ [][Next]_vars

-----------------------------------------------------------------------------
(* ensure_no_collisions, two_phase_rename and undo on any plan: the plan is  *)
(* any list of distinct image files of the directory, in main's sorted      *)
(* order, each paired with any base name followed by its own suffix.        *)

PlanBases == { <<"9">>, <<"1", "0">>, <<"1", "1">>, <<"1", "2">> }

\* a file left under the temporary name of 10.jpg by an earlier run
StaleTemp == <<"1", "0", ".jpg", TempSuffix>>

DirectoriesWithTemp ==
    {S \in SUBSET (NameUniverse \cup {StaleTemp}) : Cardinality(S) <= MaxFiles}

RECURSIVE PlansOver(_)
PlansOver(cands) ==
    IF cands = <<>> THEN {<<>>}
    ELSE {<<<<Head(cands), b \o Suffix(Head(cands))>>>> \o rest :
              b \in PlanBases, rest \in PlansOver(Tail(cands))}

InitPlans ==
    /\ tpl = <<>>
    /\ start = 1
    /\ prefixes = {}
    /\ dry_run \in BOOLEAN
    /\ \E S \in DirectoriesWithTemp : fs = [n \in S |-> n]
    /\ fs0 = fs
    /\ pc = "plan"
    /\ \E C \in (SUBSET {p \in DOMAIN fs : is_image(fs, p)}) \ {{}} :
           candidates = SortByLowerName(C)
    /\ segs = <<>>
    /\ x_counter = 0
    /\ d_counters = <<>>
    /\ pairs \in PlansOver(candidates)
    /\ k = Len(candidates) + 1
    /\ mapping = <<>>
    /\ logs = <<>>
    /\ err = NoErr
    /\ calls = <<>>
    /\ ops = <<>>
    /\ undo_dry = FALSE
    /\ undos = 0
    /\ failed_in = ""
    /\ fs_undo = fs
    /\ lost = {}

NextPlans ==
    \/ MainEnsure
    \/ TwoPhaseBegin
    \/ RenameOk
    \/ RenameFails
    \/ SaveLog
    \/ UndoBegin

SpecPlans == InitPlans /\ [][NextPlans]_vars

-----------------------------------------------------------------------------
(* Vocabulary of the properties *)

Srcs == {pairs[i][1] : i \in 1..Len(pairs)}

Dsts == {pairs[i][2] : i \in 1..Len(pairs)}

PlanComplete ==
    /\ candidates # <<>>
    /\ Len(pairs) = Len(candidates)
    /\ pc \notin {"select", "tokenize"}
    /\ pc = "plan" => k > Len(candidates)

NoSharedDestination ==
    \A i, j \in 1..Len(pairs) : i # j => pairs[i][2] # pairs[j][2]

OccupantsAreSources(f) ==
    \A i \in 1..Len(pairs) :
        pairs[i][2] \in DOMAIN f => \E j \in 1..Len(pairs) : pairs[j][1] = pairs[i][2]

TempNameOf(src) == Append(src, TempSuffix)

TempsUnused == \A i \in 1..Len(pairs) : TempNameOf(pairs[i][1]) \notin DOMAIN fs0

\* the forward run went through both phases and returned
ForwardDone == pc = "save" \/ logs # <<>>

AllAtFinal ==
    \A i \in 1..Len(pairs) :
        pairs[i][2] \in DOMAIN fs /\ fs[pairs[i][2]] = fs0[pairs[i][1]]

-----------------------------------------------------------------------------
(* C4: ensure_no_collisions accepts a plan exactly when no two entries share *)
(* a destination and every destination that exists is a source of the plan; *)
(* a shared destination is reported as a duplicate target, also when a       *)
(* destination is occupied by a foreign file as well (the duplicate check    *)
(* comes first); otherwise a foreign occupant is reported as target exists.  *)

JustChecked ==
    /\ undos = 0 /\ calls = <<>> /\ failed_in = "" /\ mapping = <<>>
    /\ pc \in {"rename", "exit"}
    /\ PlanComplete

C4_CollisionGuard ==
    JustChecked =>
        /\ pc = "rename" <=> (NoSharedDestination /\ OccupantsAreSources(fs))
        /\ pc = "rename" => err = NoErr
        /\ ~NoSharedDestination => err = Exit("duplicate target")
        /\ (NoSharedDestination /\ ~OccupantsAreSources(fs)) => err = Exit("target exists")

\* two entries share a destination that a foreign file occupies
C4_Witness ==
    /\ JustChecked
    /\ Len(pairs) = 2
    /\ ~NoSharedDestination
    /\ ~OccupantsAreSources(fs)
    /\ err = Exit("duplicate target")

-----------------------------------------------------------------------------
(* C2: a real run on an accepted plan, the temporary names unused before,   *)
(* never renames onto an occupied path, and once both phases are through    *)
(* every source's file is at its destination, no temporary name is left and *)
(* every file outside the plan is where it was.                             *)

C2_TwoPhaseNoOverwrite ==
    (TempsUnused /\ undos = 0) =>
        /\ lost = {}
        /\ ForwardDone =>
            /\ AllAtFinal
            /\ \A i \in 1..Len(pairs) : TempNameOf(pairs[i][1]) \notin DOMAIN fs
            /\ \A n \in DOMAIN fs0 \ Srcs : n \in DOMAIN fs /\ fs[n] = fs0[n]
            /\ DOMAIN fs = (DOMAIN fs0 \ Srcs) \cup Dsts

\* a rotation of three files went through
C2_Witness ==
    /\ TempsUnused /\ undos = 0 /\ ForwardDone
    /\ Len(pairs) = 3
    /\ Dsts = Srcs
    /\ \A i \in 1..3 : pairs[i][1] # pairs[i][2]

-----------------------------------------------------------------------------
(* C10: in a real run the rename calls are, in order, source -> temporary   *)
(* name for every entry in plan order and only then temporary name ->       *)
(* destination for every entry in plan order; when phase two begins no      *)
(* source is left under its original name.                                  *)

C10_PhaseOrdering ==
    undos = 0 =>
        /\ Len(calls) <= 2 * Len(pairs)
        /\ \A n \in 1..Len(calls) :
               IF n <= Len(pairs)
               THEN calls[n] = <<pairs[n][1], TempNameOf(pairs[n][1])>>
               ELSE calls[n] = <<TempNameOf(pairs[n - Len(pairs)][1]),
                                 pairs[n - Len(pairs)][2]>>
        /\ pc = "phase1" => Len(calls) = k - 1
        /\ pc = "phase2" =>
               /\ Len(calls) = Len(pairs) + k - 1
               /\ k = 1 => \A i \in 1..Len(pairs) : pairs[i][1] \notin DOMAIN fs

\* phase two of a plan of three entries has made its first call
C10_Witness ==
    /\ undos = 0
    /\ pc = "phase2"
    /\ Len(pairs) = 3
    /\ Len(calls) = 4

-----------------------------------------------------------------------------
(* C1 (as claimed): whenever a plan was accepted and renamed for real, the  *)
(* temporary names free and no rename call failing, the first undo of its   *)
(* log succeeds and leaves the directory as it was before the forward run.  *)

C1_RoundTrip ==
    (undos = 1 /\ pc = "exit" /\ ~undo_dry /\ failed_in = "" /\ TempsUnused) =>
        /\ err = NoErr
        /\ fs = fs0

-----------------------------------------------------------------------------
(* C3 (as claimed): when a real run on a validated plan has ended, either   *)
(* every planned file is at its destination, or the directory is as it was  *)
(* or some log the run wrote lets undo return it to what it was; files are  *)
(* never left renamed with no log written.                                  *)

RealRunEnded ==
    /\ pc = "exit" /\ undos = 0 /\ ~dry_run
    /\ PlanComplete /\ NoSharedDestination /\ OccupantsAreSources(fs0)

UndoRestores(log) ==
    /\ UndoPreCheck(fs, UndoOps(log), 1) = NoErr
    /\ UndoRenames(fs, UndoOps(log), 1) = fs0

C3_AllOrReversible ==
    RealRunEnded =>
        /\ AllAtFinal \/ fs = fs0 \/ \E l \in 1..Len(logs) : UndoRestores(logs[l])
        /\ fs # fs0 => logs # <<>>

-----------------------------------------------------------------------------
(* C9 (as claimed): the error a failing rename call of phase two ends the   *)
(* run with differs from the error a failing rename call of phase one ends  *)
(* it with.                                                                 *)

PhaseOneError == OSError

C9_DistinctPhaseErrors ==
    failed_in = "phase2" => err # PhaseOneError

-----------------------------------------------------------------------------
(* C5: a run whose template has a "[" with no later "]", or has no counter  *)
(* segment, or whose plan ensure_no_collisions rejects, makes no rename     *)
(* call and writes no log: it never enters two_phase_rename and the         *)
(* directory stays as it was; with files selected it ends in a SystemExit.  *)

UnclosedBracket(t) ==
    \E i \in 1..Len(t) : t[i] = "[" /\ \A j \in (i + 1)..Len(t) : t[j] # "]"

NoCounterSegment(t) ==
    /\ ~UnclosedBracket(t)
    /\ LET sg == tokenize_template(t).segs
       IN  \A i \in 1..Len(sg) : sg[i][1] = "lit"

PlanRejected ==
    PlanComplete /\ ~(NoSharedDestination /\ OccupantsAreSources(fs0))

C5_FailClosed ==
    (UnclosedBracket(tpl) \/ NoCounterSegment(tpl) \/ PlanRejected) =>
        /\ pc \in {"select", "tokenize", "plan", "exit"}
        /\ calls = <<>>
        /\ fs = fs0
        /\ logs = <<>>
        /\ mapping = <<>>
        /\ (pc = "exit" /\ candidates # <<>>) => err.type = "SystemExit"

\* a real run on the pattern "abc[def" with files selected has ended
C5_Witness ==
    /\ tpl = <<"a", "b", "c", "[", "d", "e", "f">>
    /\ ~dry_run
    /\ Len(candidates) >= 2
    /\ pc = "exit"
    /\ err = Exit("unbalanced bracket")

-----------------------------------------------------------------------------
(* C6: a dry run renames nothing and writes no log; the list                *)
(* two_phase_rename returns is, dry or real, the plan's (source,            *)
(* destination) pairs in plan order, and is returned only for a plan that   *)
(* satisfies the collision check; a dry undo ends at once with the          *)
(* directory as it found it, in error exactly when a reverse pair fails the *)
(* pre-check.                                                               *)

UndoBlocked(f, log) ==
    \E i \in 1..Len(log) :
        \/ log[i].dst \notin DOMAIN f
        \/ log[i].src \in DOMAIN f /\ log[i].src # log[i].dst

C6_PreviewUnchanged ==
    /\ dry_run => (fs = fs0 /\ calls = <<>> /\ logs = <<>> /\ lost = {})
    /\ mapping # <<>> =>
           /\ Len(mapping) = Len(pairs)
           /\ \A i \in 1..Len(pairs) :
                  mapping[i] = [src |-> pairs[i][1], dst |-> pairs[i][2]]
           /\ NoSharedDestination /\ OccupantsAreSources(fs0)
    /\ (undos > 0 /\ undo_dry) =>
           /\ pc = "exit"
           /\ fs = fs_undo
           /\ calls = <<>>
           /\ err # NoErr <=> UndoBlocked(fs_undo, logs[1])

\* a dry run on a plan that swaps two files has returned
C6_Witness ==
    /\ dry_run
    /\ pc = "exit"
    /\ Len(mapping) = 2
    /\ mapping[1].dst = mapping[2].src
    /\ mapping[2].dst = mapping[1].src

-----------------------------------------------------------------------------
(* C8: when some reverse pair of the log fails the pre-check (its from path *)
(* is missing, or its to path exists and is another path), undo ends in a   *)
(* SystemExit with no file renamed; a source-missing error is raised only   *)
(* for a missing from path, a target-exists error only for an occupied to   *)
(* path, and neither is raised when every pair passes; the log stays as     *)
(* save_log wrote it.                                                       *)

C8_UndoPreCheck ==
    undos > 0 =>
        /\ logs = <<mapping>>
        /\ UndoBlocked(fs_undo, logs[1]) =>
               /\ pc = "exit"
               /\ err \in {Exit("undo: source missing"), Exit("undo: target exists")}
               /\ fs = fs_undo
               /\ calls = <<>>
        /\ err = Exit("undo: source missing") =>
               \E i \in 1..Len(logs[1]) : logs[1][i].dst \notin DOMAIN fs_undo
        /\ err = Exit("undo: target exists") =>
               \E i \in 1..Len(logs[1]) :
                   /\ logs[1][i].src \in DOMAIN fs_undo
                   /\ logs[1][i].src # logs[1][i].dst
        /\ ~UndoBlocked(fs_undo, logs[1]) => err \in {NoErr, OSError}

\* a real undo whose first reverse pair passes the pre-check and whose second
\* finds its target occupied
C8_Witness ==
    /\ undos > 0
    /\ ~undo_dry
    /\ Len(ops) = 2
    /\ ops[1][1] \in DOMAIN fs_undo
    /\ ops[1][2] \notin DOMAIN fs_undo
    /\ ops[2][2] \in DOMAIN fs_undo
    /\ err = Exit("undo: target exists")

-----------------------------------------------------------------------------
(* C7: the k-th entry of the plan (counting from 0) pairs the k-th          *)
(* candidate with a name that ends in the candidate's own extension and     *)
(* whose base is, segment by segment, the literal text, start + k written   *)
(* in decimal, or the digit run's initial value + k written in decimal;     *)
(* when the segment's width is more than 1 and more than the number's       *)
(* length the number is filled up with zeros to that width, and it is never *)
(* cut.                                                                     *)

RECURSIVE Pow10(_)
Pow10(n) == IF n = 0 THEN 1 ELSE 10 * Pow10(n - 1)

\* the value of a string of decimal digits
DecimalValue(f) ==
    LET RECURSIVE Sum(_)
        Sum(i) == IF i > Len(f) THEN 0
                  ELSE DigitVal(f[i]) * Pow10(Len(f) - i) + Sum(i + 1)
    IN  Sum(1)

\* f is the decimal numeral of v, with zeros after the sign up to width w
IsFieldOf(f, v, w) ==
    LET mag == IF v < 0 THEN -v ELSE v
        body == IF v < 0 /\ f # <<>> THEN Tail(f) ELSE f
        zeros == IF v < 0 THEN Len(f) - 1 ELSE Len(f)
    IN  /\ v < 0 => (f # <<>> /\ f[1] = "-")
        /\ body # <<>>
        /\ \A i \in 1..Len(body) : IsDigit(body[i])
        /\ DecimalValue(body) = mag
        /\ w > 1 => Len(f) >= w
        /\ \/ Len(body) = 1
           \/ body[1] # "0"
           \/ w > 1 /\ Len(f) = w

\* name is the rendering of segments i.. with the given counter values
RECURSIVE Renders(_, _, _, _, _, _)
Renders(name, sg, i, xv, dvs, di) ==
    IF i > Len(sg) THEN name = <<>>
    ELSE \E n \in 0..Len(name) :
             LET f == SubSeq(name, 1, n)
                 rest == SubSeq(name, n + 1, Len(name))
             IN  CASE sg[i][1] = "lit" ->
                          f = sg[i][2] /\ Renders(rest, sg, i + 1, xv, dvs, di)
                   [] sg[i][1] = "x" ->
                          IsFieldOf(f, xv, sg[i][2]) /\ Renders(rest, sg, i + 1, xv, dvs, di)
                   [] sg[i][1] = "d" ->
                          IsFieldOf(f, dvs[di], sg[i][2])
                              /\ Renders(rest, sg, i + 1, xv, dvs, di + 1)

\* the initial values the template's digit runs declare, left to right
DeclaredInitials ==
    LET at == {i \in 1..Len(segs) : segs[i][1] = "d"}
        nth(j) == CHOOSE i \in at : Cardinality({h \in at : h < i}) = j - 1
    IN  [j \in 1..Cardinality(at) |-> segs[nth(j)][3]]

C7_CounterAdvancement ==
    \A n \in 1..Len(pairs) :
        LET src == pairs[n][1]
            dst == pairs[n][2]
        IN  /\ src = candidates[n]
            /\ Len(dst) >= 1
            /\ dst[Len(dst)] = src[Len(src)]
            /\ Renders(SubSeq(dst, 1, Len(dst) - 1), segs, 1, start + (n - 1),
                       [j \in 1..Len(DeclaredInitials) |-> DeclaredInitials[j] + (n - 1)], 1)

\* three files planned with an x run and the digit runs "001" and "500"
C7_Witness ==
    /\ tpl = <<"x", "a", "0", "0", "1", "a", "5", "0", "0">>
    /\ start = 9
    /\ Len(pairs) = 3
    /\ pairs[1][2] = <<"9", "a", "0", "0", "1", "a", "5", "0", "0", ".jpg">>
    /\ pairs[2][2] = <<"1", "0", "a", "0", "0", "2", "a", "5", "0", "1", ".jpg">>
    /\ pairs[3][2] = <<"1", "1", "a", "0", "0", "3", "a", "5", "0", "2", ".jpg">>

====
